---- MODULE Spec2Model ----
(***************************************************************************)
(* Model of api/index.py of crypto-analysis-bot: the candle normaliser     *)
(* clean_crypto_data, the timeframe lookup tables and the /analyze         *)
(* request pipeline.                                                       *)
(*                                                                         *)
(* Numbers.  Raw OHLC strings are modelled as integers counting            *)
(* thousandths (one digit more than the precision of 2 that analyze uses), *)
(* rounded prices as integers counting hundredths, and percentages as      *)
(* integers counting hundredths of a percent.  Arithmetic is exact decimal *)
(* arithmetic with round-half-to-even; the raw values drawn below never    *)
(* sit on a rounding tie of the price rounding.                            *)
(***************************************************************************)
EXTENDS Integers, Sequences, FiniteSets, TLC

VARIABLES
    pc,          \* position of the handler / of the normaliser run
    request,     \* the request body handed to analyze
    intervals,   \* analyze: intervals
    price_data,  \* analyze: price_data
    raw_data,    \* the batch handed to clean_crypto_data
    cleaned,     \* the value clean_crypto_data returned
    articles,    \* analyze: articles
    sentiment,   \* analyze: sentiment
    analysis,    \* analyze: analysis
    response,    \* the HTTP response of analyze
    calls        \* history of the collaborator calls made, in order

vars == <<pc, request, intervals, price_data, raw_data, cleaned, articles,
          sentiment, analysis, response, calls>>

\* Python's None, for a variable that holds no value yet
None == [none |-> TRUE]

----------------------------------------------------------------------------
(* Bounds of the input space *)

\* longest values list of a raw batch
MaxN == 2
\* candle timestamps are the instants 1..MaxT
MaxT == 2

----------------------------------------------------------------------------
(* Arithmetic helpers *)

Abs(x) == IF x < 0 THEN -x ELSE x
Max2(a, b) == IF a > b THEN a ELSE b
Min2(a, b) == IF a < b THEN a ELSE b

\* n/d rounded to the nearest integer, ties to even: Python's round()
RoundDiv(n, d) ==
    LET nn == IF d < 0 THEN -n ELSE n
        dd == Abs(d)
        q  == nn \div dd
        r  == nn % dd
    IN  IF 2 * r < dd THEN q
        ELSE IF 2 * r > dd THEN q + 1
        ELSE IF q % 2 = 0 THEN q ELSE q + 1

\* round(float(s), precision) with precision = 2: thousandths to hundredths
RoundPrice(x) == RoundDiv(x, 10)

\* a slip: the last element taken for the maximum
SeqMax_Last(s) == s[Len(s)]

RECURSIVE SeqMax(_)
SeqMax(s) == IF Len(s) = 1 THEN s[1] ELSE Max2(s[1], SeqMax(Tail(s)))
RECURSIVE SeqMin(_)
SeqMin(s) == IF Len(s) = 1 THEN s[1] ELSE Min2(s[1], SeqMin(Tail(s)))
RECURSIVE SeqSum(_)
SeqSum(s) == IF s = <<>> THEN 0 ELSE s[1] + SeqSum(Tail(s))

----------------------------------------------------------------------------
(* Raw batches: the provider's JSON as clean_crypto_data receives it *)

\* datetime strings: ISO with a trailing Z, bare ISO, or unparseable
DateTimes ==
    [t : 1..MaxT, fmt : {"iso", "Z"}] \cup {[t |-> 0, fmt |-> "bad"]}

\* open/high/low/close strings, in thousandths
OHLC_A == [open |-> 1000, high |-> 1204, low |-> 996, close |-> 1104]
\* a close (and low) of "0.004", which rounds to 0.0
OHLC_Z == [open |-> 1104, high |-> 1306, low |-> 4, close |-> 4]
OHLC_B == [open |-> 1104, high |-> 1500, low |-> 1000, close |-> 1050]

RawOHLC == {OHLC_A, OHLC_Z, OHLC_B}

RawRecords ==
    { [datetime |-> d, open |-> k.open, high |-> k.high, low |-> k.low,
       close |-> k.close] : d \in DateTimes, k \in RawOHLC }

SeqsUpTo(S, n) == UNION { [1..m -> S] : m \in 0..n }

\* the status strings a batch carries
Statuses == {"ok", "error"}

\* A batch: a dict with optional keys error/message (set by get_price_data
\* on a transport failure, where status is "None": no such key), status,
\* meta and values
Batch(err, st, hm, hv, vs) ==
    [error |-> err, status |-> st, has_meta |-> hm, has_values |-> hv,
     values |-> vs]

RawBatches ==
    { Batch(FALSE, st, hm, TRUE, vs) :
        st \in Statuses, hm \in BOOLEAN, vs \in SeqsUpTo(RawRecords, MaxN) }
    \cup
    { Batch(FALSE, st, hm, FALSE, <<>>) : st \in Statuses, hm \in BOOLEAN }

----------------------------------------------------------------------------
(* clean_crypto_data *)

\* parse_datetime: a string ending in Z gives an offset-aware datetime, a
\* bare ISO string a naive one; anything else raises from strptime
parse_datetime(dt) ==
    IF dt.fmt = "Z" THEN [ok |-> TRUE, t |-> dt.t, aware |-> TRUE]
    ELSE IF dt.fmt = "iso" THEN [ok |-> TRUE, t |-> dt.t, aware |-> FALSE]
    ELSE [ok |-> FALSE, t |-> 0, aware |-> FALSE]

\* sorted(raw_values, key=...): a stable sort, ascending by parsed instant
RECURSIVE InsertByKey(_, _)
InsertByKey(s, x) ==
    IF s = <<>> THEN <<x>>
    ELSE IF parse_datetime(x.datetime).t < parse_datetime(s[Len(s)].datetime).t
         THEN Append(InsertByKey(SubSeq(s, 1, Len(s) - 1), x), s[Len(s)])
         ELSE Append(s, x)

\* a slip: the values are walked in the order received
sorted_Unsorted(s) == s

RECURSIVE sorted(_)
sorted(s) ==
    IF s = <<>> THEN <<>>
    ELSE InsertByKey(sorted(SubSeq(s, 1, Len(s) - 1)), s[Len(s)])

\* a slip: a zero denominator guarded with a placeholder instead of raising
Percent_Guarded(delta, base) ==
    IF base = 0 THEN [raised |-> FALSE, value |-> 0]
    ELSE [raised |-> FALSE, value |-> RoundDiv(delta * 10000, base)]

\* round(delta / base * 100, precision): a float division, which raises
\* ZeroDivisionError when base is 0.0; the value counts hundredths of a percent
Percent(delta, base) ==
    IF base = 0 THEN [raised |-> TRUE, value |-> 0]
    ELSE [raised |-> FALSE, value |-> RoundDiv(delta * 10000, base)]

\* a slip: the previous candle's open read for its close
PrevClose_Open(sv, i) == RoundPrice(sv[i - 1].open)

\* prev_close when building candle i (i > 1): cleaned_data[i-1]['c']
PrevClose(sv, i) == RoundPrice(sv[i - 1].close)

\* the data_point built for sorted_values[i]
DataPoint(sv, i) ==
    LET o == RoundPrice(sv[i].open)
        h == RoundPrice(sv[i].high)
        l == RoundPrice(sv[i].low)
        c == RoundPrice(sv[i].close)
    IN  [ts |-> parse_datetime(sv[i].datetime),
         o |-> o, h |-> h, l |-> l, c |-> c,
         change |-> IF i > 1 THEN c - PrevClose(sv, i) ELSE 0,
         change_pct |-> IF i > 1
                        THEN Percent(c - PrevClose(sv, i),
                                     PrevClose(sv, i)).value
                        ELSE 0,
         range |-> h - l,
         typical_price |-> RoundDiv(h + l + c, 3),
         body_size |-> Abs(c - o),
         upper_shadow |-> h - Max2(o, c),
         lower_shadow |-> Min2(o, c) - l]

ErrorResult(msg) == [error |-> TRUE, message |-> msg]

\* the summary block built from cleaned_data
Summary(cd) ==
    LET prices == [i \in 1..Len(cd) |-> cd[i].c]
        highs  == [i \in 1..Len(cd) |-> cd[i].h]
        lows   == [i \in 1..Len(cd) |-> cd[i].l]
        first_price == cd[1].c
        last_price  == cd[Len(cd)].c
    IN  [current_price |-> last_price,
         period_high |-> SeqMax(highs),
         period_low |-> SeqMin(lows),
         period_open |-> cd[1].o,
         total_change |-> last_price - first_price,
         total_change_pct |->
             Percent(last_price - first_price, first_price).value,
         volatility |-> SeqMax(highs) - SeqMin(lows),
         avg_price |-> RoundDiv(SeqSum(prices), Len(prices))]

\* a slip: an empty list answered with a summary of placeholders
BuildResult_EmptySummary(cd) ==
    IF Len(cd) = 0
    THEN [error |-> FALSE,
          data_points |-> 0,
          summary |-> [current_price |-> 0, period_high |-> 0,
                       period_low |-> 0, period_open |-> 0,
                       total_change |-> 0, total_change_pct |-> 0,
                       volatility |-> 0, avg_price |-> 0],
          ohlc_data |-> cd]
    ELSE IF Percent(cd[Len(cd)].c - cd[1].c, cd[1].c).raised
    THEN ErrorResult(<<"float division by zero">>)
    ELSE [error |-> FALSE,
          data_points |-> Len(cd),
          summary |-> Summary(cd),
          ohlc_data |-> cd]

\* lines 86-119: cleaned_data[0] raises IndexError on an empty list, the
\* period percentage divides by the first close, then the dict is built
BuildResult(cd) ==
    IF Len(cd) = 0
    THEN ErrorResult(<<"list index out of range">>)
    ELSE IF Percent(cd[Len(cd)].c - cd[1].c, cd[1].c).raised
    THEN ErrorResult(<<"float division by zero">>)
    ELSE [error |-> FALSE,
          data_points |-> Len(cd),
          summary |-> Summary(cd),
          ohlc_data |-> cd]

\* the statements of the try block after the shape and status checks; every
\* exception they raise is turned into an error result by the except clause
CleanBody(raw_values) ==
    LET n  == Len(raw_values)
        sv == sorted(raw_values)
    IN  IF \E i \in 1..n : ~parse_datetime(raw_values[i].datetime).ok
        THEN ErrorResult(<<"time data does not match format">>)
        ELSE IF \E i, j \in 1..n :
                    parse_datetime(raw_values[i].datetime).aware
                        # parse_datetime(raw_values[j].datetime).aware
        THEN ErrorResult(
                 <<"can't compare offset-naive and offset-aware datetimes">>)
        ELSE IF \E i \in 2..n :
                    Percent(RoundPrice(sv[i].close) - PrevClose(sv, i),
                            PrevClose(sv, i)).raised
        THEN ErrorResult(<<"float division by zero">>)
        ELSE BuildResult([i \in 1..n |-> DataPoint(sv, i)])

\* a slip: the status of the batch never looked at
clean_crypto_data_StatusUnchecked(raw) ==
    IF ~(raw.has_values /\ raw.has_meta)
    THEN ErrorResult(<<"Invalid data structure">>)
    ELSE CleanBody(raw.values)

clean_crypto_data(raw) ==
    IF ~(raw.has_values /\ raw.has_meta)
    THEN ErrorResult(<<"Invalid data structure">>)
    ELSE IF raw.status # "ok"
    THEN ErrorResult(<<"Dataset status: ", raw.status>>)
    ELSE CleanBody(raw.values)

----------------------------------------------------------------------------
(* The normaliser on its own: one batch in, one result out *)

InitClean ==
    /\ pc = "clean"
    /\ raw_data \in RawBatches
    /\ cleaned = None
    /\ request = None
    /\ intervals = <<>>
    /\ price_data = <<>>
    /\ articles = <<>>
    /\ sentiment = None
    /\ analysis = None
    /\ response = None
    /\ calls = <<>>

Clean ==
    /\ pc = "clean"
    /\ cleaned' = clean_crypto_data(raw_data)
    /\ pc' = "cleaned"
    /\ UNCHANGED <<request, intervals, price_data, raw_data, articles,
                   sentiment, analysis, response, calls>>

NextClean == Clean

SpecClean == InitClean /\ [][NextClean]_vars

----------------------------------------------------------------------------
(* Properties of clean_crypto_data, checked under SpecClean *)

Normalised == pc = "cleaned"
Returned == pc = "cleaned" /\ ~cleaned.error
RawValues == raw_data.values
OkBatch == raw_data.has_values /\ raw_data.has_meta /\ raw_data.status = "ok"
\* every record's datetime is one parse_datetime accepts
Parseable == \A i \in 1..Len(RawValues) : RawValues[i].datetime.fmt # "bad"
\* the datetimes all carry the Z suffix, or none does
SameZone ==
    \A i, j \in 1..Len(RawValues) :
        (RawValues[i].datetime.fmt = "Z") = (RawValues[j].datetime.fmt = "Z")
DistinctInstants ==
    \A i, j \in 1..Len(RawValues) :
        i # j => RawValues[i].datetime.t # RawValues[j].datetime.t
ClosesNonZero ==
    \A i \in 1..Len(RawValues) : RoundPrice(RawValues[i].close) # 0
\* record j comes after record i in a stable ascending sort
SortsAfter(i, j) ==
    \/ RawValues[i].datetime.t < RawValues[j].datetime.t
    \/ RawValues[i].datetime.t = RawValues[j].datetime.t /\ i < j

C2_ChangeAgainstSortedPredecessor ==
    Returned =>
        LET cd == cleaned.ohlc_data
        IN  /\ cd[1].change = 0
            /\ cd[1].change_pct = 0
            /\ \A i \in 2..Len(cd) :
                   /\ cd[i].change = cd[i].c - cd[i - 1].c
                   /\ cd[i].change_pct =
                          RoundDiv((cd[i].c - cd[i - 1].c) * 10000, cd[i - 1].c)
            /\ DistinctInstants =>
                 \A j \in 1..Len(RawValues) :
                   LET earlier == {k \in 1..Len(RawValues) :
                                      RawValues[k].datetime.t
                                        < RawValues[j].datetime.t}
                       p == CHOOSE k \in earlier :
                                \A m \in earlier :
                                    RawValues[m].datetime.t
                                      <= RawValues[k].datetime.t
                   IN  \A i \in 1..Len(cd) :
                         cd[i].ts.t = RawValues[j].datetime.t =>
                           cd[i].change =
                             IF earlier = {} THEN 0
                             ELSE RoundPrice(RawValues[j].close)
                                    - RoundPrice(RawValues[p].close)

\* the record received first is the later one: its change is taken against
\* the record received second
C2_Witness ==
    /\ Returned
    /\ Len(RawValues) = 2
    /\ RawValues[1].datetime.t > RawValues[2].datetime.t
    /\ cleaned.ohlc_data[2].change # 0
    /\ cleaned.ohlc_data[2].change =
           RoundPrice(RawValues[1].close) - RoundPrice(RawValues[2].close)

\* C3: in every series returned period_high is the maximum of the candle
\* highs, period_low the minimum of the candle lows, and volatility their
\* difference.
C3_PeriodExtremes ==
    Returned =>
        LET cd == cleaned.ohlc_data
            sm == cleaned.summary
        IN  /\ \A i \in 1..Len(cd) : cd[i].h <= sm.period_high
            /\ \E i \in 1..Len(cd) : cd[i].h = sm.period_high
            /\ \A i \in 1..Len(cd) : cd[i].l >= sm.period_low
            /\ \E i \in 1..Len(cd) : cd[i].l = sm.period_low
            /\ \E i \in 1..Len(RawValues) :
                   RoundPrice(RawValues[i].high) = sm.period_high
            /\ \A i \in 1..Len(RawValues) :
                   RoundPrice(RawValues[i].high) <= sm.period_high
            /\ sm.volatility = sm.period_high - sm.period_low

\* the highest high is not the last candle's, the lowest low not the first's
C3_Witness ==
    /\ Returned
    /\ Len(cleaned.ohlc_data) = 2
    /\ cleaned.ohlc_data[1].h > cleaned.ohlc_data[2].h
    /\ cleaned.ohlc_data[1].l > cleaned.ohlc_data[2].l
    /\ cleaned.summary.period_high = cleaned.ohlc_data[1].h
    /\ cleaned.summary.period_low = cleaned.ohlc_data[2].l
    /\ cleaned.summary.volatility > 0

\* C4: a batch with status "ok", a meta block and an empty values list gets
\* an error result (the IndexError of cleaned_data[0]); no result returned is
\* a series or summary of zero candles.
C4_EmptyValuesFail ==
    Normalised =>
        /\ (OkBatch /\ RawValues = <<>>) =>
               /\ cleaned.error
               /\ cleaned.message = <<"list index out of range">>
        /\ ~cleaned.error =>
               /\ cleaned.data_points >= 1
               /\ cleaned.ohlc_data # <<>>

C4_Witness ==
    /\ Normalised
    /\ OkBatch
    /\ RawValues = <<>>
    /\ cleaned.error

\* C5 as stated: every batch whose status is not "ok" fails with the
\* upstream-status error carrying the status, batches without a values or
\* meta block included.
C5_Original ==
    (Normalised /\ raw_data.status # "ok") =>
        /\ cleaned.error
        /\ cleaned.message = <<"Dataset status: ", raw_data.status>>

\* C5 amended: every batch that has both a values and a meta block and whose
\* status is not "ok" fails with the upstream-status error carrying the
\* status; a batch without a values or meta block fails with the
\* invalid-structure error, whatever its status.
C5_StatusAfterShape ==
    Normalised =>
        /\ (raw_data.has_values /\ raw_data.has_meta
                /\ raw_data.status # "ok") =>
               /\ cleaned.error
               /\ cleaned.message = <<"Dataset status: ", raw_data.status>>
        /\ ~(raw_data.has_values /\ raw_data.has_meta) =>
               /\ cleaned.error
               /\ cleaned.message = <<"Invalid data structure">>

\* a batch of full shape, with candles, and status "error"
C5_Witness ==
    /\ Normalised
    /\ raw_data.has_values
    /\ raw_data.has_meta
    /\ raw_data.status = "error"
    /\ Len(RawValues) >= 1
    /\ cleaned.error
    /\ cleaned.message = <<"Dataset status: ", "error">>

\* C6: when the batch sorts (status "ok", full shape, parseable datetimes of
\* one zone kind) and some candle's predecessor in sorted order, or the only
\* candle, has a close that rounds to 0, the result is the division-by-zero
\* error; no series returned holds a percentage taken against a zero close.
C6_ZeroCloseFails ==
    Normalised =>
        /\ (/\ OkBatch /\ Parseable /\ SameZone
            /\ \E i \in 1..Len(RawValues) :
                   /\ RoundPrice(RawValues[i].close) = 0
                   /\ \/ Len(RawValues) = 1
                      \/ \E j \in 1..Len(RawValues) : SortsAfter(i, j))
           => /\ cleaned.error
              /\ cleaned.message = <<"float division by zero">>
        /\ ~cleaned.error =>
               LET cd == cleaned.ohlc_data
               IN  /\ cd[1].c # 0
                   /\ \A i \in 2..Len(cd) : cd[i - 1].c # 0

\* a close of "0.004", zero only after rounding, on the earlier of two candles
C6_Witness ==
    /\ Normalised
    /\ OkBatch
    /\ Len(RawValues) = 2
    /\ RawValues[1].datetime.t > RawValues[2].datetime.t
    /\ RawValues[2].close # 0
    /\ RoundPrice(RawValues[2].close) = 0
    /\ cleaned.error
    /\ cleaned.message = <<"float division by zero">>

----------------------------------------------------------------------------
(* Timeframe lookup tables *)

KnownTimeframes == {"1h", "12h", "24h", "1m", "3m", "1y"}

\* a slip: the pair of one label written long before short
get_timeframe_config_Swapped(timeframe) ==
    CASE timeframe = "1h"  -> <<"1min", "5min">>
      [] timeframe = "12h" -> <<"1h", "15min">>
      [] timeframe = "24h" -> <<"1h", "4h">>
      [] timeframe = "1m"  -> <<"1day", "1week">>
      [] timeframe = "3m"  -> <<"1week", "1month">>
      [] timeframe = "1y"  -> <<"1month">>
      [] OTHER             -> <<"1h", "4h">>

\* get_timeframe_config: configs.get(timeframe, ['1h', '4h'])
get_timeframe_config(timeframe) ==
    CASE timeframe = "1h"  -> <<"1min", "5min">>
      [] timeframe = "12h" -> <<"15min", "1h">>
      [] timeframe = "24h" -> <<"1h", "4h">>
      [] timeframe = "1m"  -> <<"1day", "1week">>
      [] timeframe = "3m"  -> <<"1week", "1month">>
      [] timeframe = "1y"  -> <<"1month">>
      [] OTHER             -> <<"1h", "4h">>

\* get_outputsize_for_interval: size_map.get(interval, 100)
get_outputsize_for_interval(interval) ==
    CASE interval = "1min"   -> 60
      [] interval = "5min"   -> 144
      [] interval = "15min"  -> 96
      [] interval = "1h"     -> 168
      [] interval = "4h"     -> 180
      [] interval = "1day"   -> 90
      [] interval = "1week"  -> 52
      [] interval = "1month" -> 24
      [] OTHER               -> 100

\* a slip: another look-back for labels the table does not hold
get_news_timeframe_WeekDefault(timeframe) ==
    CASE timeframe = "1h"  -> 1
      [] timeframe = "12h" -> 2
      [] timeframe = "24h" -> 3
      [] timeframe = "1m"  -> 7
      [] timeframe = "3m"  -> 14
      [] timeframe = "1y"  -> 30
      [] OTHER             -> 7

\* get_news_timeframe: days_back = timeframe_days.get(timeframe, 3)
get_news_timeframe(timeframe) ==
    CASE timeframe = "1h"  -> 1
      [] timeframe = "12h" -> 2
      [] timeframe = "24h" -> 3
      [] timeframe = "1m"  -> 7
      [] timeframe = "3m"  -> 14
      [] timeframe = "1y"  -> 30
      [] OTHER             -> 3

\* analyze_sentiment: context = timeframe_context.get(timeframe, ...)
SentimentContext(timeframe) ==
    CASE timeframe = "1h"  ->
             "immediate market reactions and breaking news impact"
      [] timeframe = "12h" ->
             "short-term sentiment shifts and intraday catalysts"
      [] timeframe = "24h" ->
             "daily sentiment trends and recent developments"
      [] timeframe = "1m"  ->
             "weekly sentiment patterns and medium-term narratives"
      [] timeframe = "3m"  ->
             "monthly sentiment cycles and longer-term themes"
      [] timeframe = "1y"  ->
             "quarterly and annual sentiment trends, major market shifts"
      [] OTHER             -> "recent market sentiment"

\* generate_trading_analysis:
\* trading_style = timeframe_context.get(timeframe, 'day trading')
TradingStyle(timeframe) ==
    CASE timeframe = "1h"  -> "scalping and ultra-short-term trades"
      [] timeframe = "12h" -> "intraday trading with quick entries/exits"
      [] timeframe = "24h" -> "day trading with swing potential"
      [] timeframe = "1m"  -> "swing trading over days to weeks"
      [] timeframe = "3m"  -> "position trading with medium-term outlook"
      [] timeframe = "1y"  -> "long-term investment and major trend analysis"
      [] OTHER             -> "day trading"

\* send_email: timeframe_label = timeframe_labels.get(timeframe, 'Daily')
TimeframeLabel(timeframe) ==
    CASE timeframe = "1h"  -> "Hourly"
      [] timeframe = "12h" -> "12-Hour"
      [] timeframe = "24h" -> "Daily"
      [] timeframe = "1m"  -> "Monthly"
      [] timeframe = "3m"  -> "Quarterly"
      [] timeframe = "1y"  -> "Yearly"
      [] OTHER             -> "Daily"

----------------------------------------------------------------------------
(* The world around analyze: requests and collaborator answers *)

\* request bodies: a JSON object with optional ticker, timeframe and email
\* ("None" marks a missing key), or a body that is no JSON object
Requests ==
    [is_object : {TRUE},
     ticker : {"None", "", "ETH/USD"},
     timeframe : KnownTimeframes \cup {"7d", "", "None"},
     email : {"None", "", "a@b.c"}]
    \cup
    { [is_object |-> FALSE, ticker |-> "None", timeframe |-> "None",
       email |-> "None"] }

\* ticker.split('/')[0]
BaseTicker(ticker) == IF ticker = "ETH/USD" THEN "ETH" ELSE ticker

Rec(t, f, k) ==
    [datetime |-> [t |-> t, fmt |-> f], open |-> k.open, high |-> k.high,
     low |-> k.low, close |-> k.close]

\* what response.json() of the quote provider can be
PriceResponses ==
    { Batch(FALSE, "ok", TRUE, TRUE,
            <<Rec(2, "iso", OHLC_A), Rec(1, "iso", OHLC_B)>>),
      Batch(FALSE, "ok", TRUE, TRUE, <<Rec(1, "iso", OHLC_A)>>),
      Batch(FALSE, "ok", TRUE, TRUE,
            <<Rec(1, "iso", OHLC_Z), Rec(2, "iso", OHLC_A)>>),
      Batch(FALSE, "ok", TRUE, TRUE, <<>>),
      Batch(FALSE, "error", FALSE, FALSE, <<>>) }

\* get_price_data: the provider's JSON, or on a RequestException the dict
\* {"error": True, "message": str(e)}
get_price_data_results ==
    PriceResponses \cup { Batch(TRUE, "None", FALSE, FALSE, <<>>) }

\* what response.json() of the news provider can be
NewsResponses ==
    { [has_articles |-> FALSE, articles |-> <<>>],
      [has_articles |-> TRUE, articles |-> <<>>],
      [has_articles |-> TRUE, articles |-> <<"a1">>],
      [has_articles |-> TRUE, articles |-> <<"a1", "a2">>] }

\* the dict get_news_data returns on a RequestException, line 207
NewsFailure == [has_articles |-> TRUE, articles |-> <<>>]

\* news_data.get('articles', [])
GetArticles(news_data) ==
    IF news_data.has_articles THEN news_data.articles ELSE <<>>

\* the sentiment analyze substitutes when there are no articles; the score
\* counts tenths
NeutralSentiment ==
    [overall_sentiment |-> "Neutral", sentiment_score |-> 0,
     market_impact |-> "Low", key_factors |-> <<"No recent news">>,
     rationale |-> "No news articles found", articles_analyzed |-> 0]

\* what the scorer can answer for n articles
ScorerAnswers(n) ==
    { [overall_sentiment |-> "Positive", sentiment_score |-> 6,
       market_impact |-> "High", key_factors |-> <<"adoption">>,
       rationale |-> "bullish", articles_analyzed |-> n],
      [overall_sentiment |-> "Neutral", sentiment_score |-> 0,
       market_impact |-> "Low", key_factors |-> <<"noise">>,
       rationale |-> "nothing of note", articles_analyzed |-> n] }

Response(code, body) == [status |-> code, body |-> body]

\* data.get('timeframe', '24h')
Timeframe(req) == IF req.timeframe = "None" THEN "24h" ELSE req.timeframe

----------------------------------------------------------------------------
(* analyze, one action per blocking call *)

Init ==
    /\ pc = "idle"
    /\ request = None
    /\ intervals = <<>>
    /\ price_data = <<>>
    /\ raw_data = None
    /\ cleaned = None
    /\ articles = <<>>
    /\ sentiment = None
    /\ analysis = None
    /\ response = None
    /\ calls = <<>>

\* lines 479-492: read the body, validate, resolve the intervals
AnalyzeStart(req) ==
    /\ pc = "idle"
    /\ request' = req
    /\ IF ~req.is_object
       THEN /\ response' = Response(500, <<"Failed to process analysis">>)
            /\ pc' = "done"
            /\ UNCHANGED intervals
       ELSE IF req.ticker \in {"None", ""} \/ req.email \in {"None", ""}
       THEN /\ response' = Response(400, <<"Ticker and email are required">>)
            /\ pc' = "done"
            /\ UNCHANGED intervals
       ELSE /\ intervals' = get_timeframe_config(Timeframe(req))
            /\ pc' = "prices"
            /\ UNCHANGED response
    /\ UNCHANGED <<price_data, raw_data, cleaned, articles, sentiment,
                   analysis, calls>>

\* a slip: the check of the cleaning result left out
FetchOutcome_CleanUnchecked(raw, result) ==
    IF raw.error THEN "price_error" ELSE "ok"

\* a slip: a failed fetch passed on, as get_news_data passes its own on
FetchOutcome_FetchUnchecked(raw, result) ==
    IF ~raw.error /\ result.error THEN "clean_error" ELSE "ok"

\* the two error checks of the loop body, lines 499 and 505
FetchOutcome(raw, result) ==
    IF raw.error THEN "price_error"
    ELSE IF result.error THEN "clean_error"
    ELSE "ok"

\* the body of the for loop, lines 494-508, for the next interval
FetchPrice(raw) ==
    LET interval == intervals[Len(price_data) + 1]
        result   == clean_crypto_data(raw)
    IN  /\ pc = "prices"
        /\ calls' = Append(calls,
               [op |-> "get_price_data", ticker |-> request.ticker,
                interval |-> interval,
                outputsize |-> get_outputsize_for_interval(interval),
                failed |-> raw.error])
        /\ raw_data' = raw
        /\ IF FetchOutcome(raw, result) = "price_error"
           THEN /\ response' = Response(500, <<"Price data error">>)
                /\ pc' = "done"
                /\ UNCHANGED <<cleaned, price_data>>
           ELSE /\ cleaned' = result
                /\ IF FetchOutcome(raw, result) = "clean_error"
                   THEN /\ response' =
                              Response(500, <<"Data processing error">>
                                            \o result.message)
                        /\ pc' = "done"
                        /\ UNCHANGED price_data
                   ELSE /\ price_data' = Append(price_data, result)
                        /\ pc' = IF Len(price_data) + 1 = Len(intervals)
                                 THEN "news" ELSE "prices"
                        /\ UNCHANGED response
        /\ UNCHANGED <<request, intervals, articles, sentiment, analysis>>

\* a slip: "if articles is not None:", true of the empty list
NeedsScoring_NotNone(arts) == TRUE

\* line 517: if articles:
NeedsScoring(arts) == arts # <<>>

\* lines 510-528: get_news_data, the articles, and the neutral default;
\* failed tells whether requests raised inside get_news_data
FetchNews(failed, answer) ==
    LET news_data == IF failed THEN NewsFailure ELSE answer
    IN
    /\ pc = "news"
    /\ calls' = Append(calls,
           [op |-> "get_news_data", q |-> BaseTicker(request.ticker),
            days_back |-> get_news_timeframe(Timeframe(request)),
            failed |-> failed, result |-> news_data])
    /\ articles' = GetArticles(news_data)
    /\ IF NeedsScoring(GetArticles(news_data))
       THEN /\ pc' = "sentiment"
            /\ UNCHANGED sentiment
       ELSE /\ sentiment' = NeutralSentiment
            /\ pc' = "analysis"
    /\ UNCHANGED <<request, intervals, price_data, raw_data, cleaned,
                   analysis, response>>

\* a collaborator call raised: the except clause of analyze, lines 540-544
Raise ==
    /\ response' = Response(500, <<"Failed to process analysis">>)
    /\ pc' = "done"

\* line 519: analyze_sentiment(articles, timeframe)
AnalyzeSentiment(ok, answer) ==
    /\ pc = "sentiment"
    /\ calls' = Append(calls,
           [op |-> "analyze_sentiment", articles |-> articles,
            context |-> SentimentContext(Timeframe(request))])
    /\ IF ok
       THEN /\ sentiment' = answer
            /\ pc' = "analysis"
            /\ UNCHANGED response
       ELSE /\ Raise
            /\ UNCHANGED sentiment
    /\ UNCHANGED <<request, intervals, price_data, raw_data, cleaned,
                   articles, analysis>>

\* line 532: generate_trading_analysis(price_data, sentiment, timeframe)
GenerateAnalysis(ok) ==
    /\ pc = "analysis"
    /\ calls' = Append(calls,
           [op |-> "generate_trading_analysis", price_data |-> price_data,
            sentiment_data |-> sentiment,
            trading_style |-> TradingStyle(Timeframe(request))])
    /\ IF ok
       THEN /\ analysis' = "recommendation"
            /\ pc' = "email"
            /\ UNCHANGED response
       ELSE /\ Raise
            /\ UNCHANGED analysis
    /\ UNCHANGED <<request, intervals, price_data, raw_data, cleaned,
                   articles, sentiment>>

\* lines 536-538: send_email(email, ticker, analysis, timeframe)
SendEmail(ok) ==
    /\ pc = "email"
    /\ calls' = Append(calls,
           [op |-> "send_email", to_email |-> request.email,
            analysis |-> analysis,
            timeframe_label |-> TimeframeLabel(Timeframe(request))])
    /\ IF ok
       THEN response' = Response(200, <<"Analysis sent successfully">>)
       ELSE response' = Response(500, <<"Failed to process analysis">>)
    /\ pc' = "done"
    /\ UNCHANGED <<request, intervals, price_data, raw_data, cleaned,
                   articles, sentiment, analysis>>

Next ==
    \/ \E req \in Requests : AnalyzeStart(req)
    \/ \E raw \in get_price_data_results : FetchPrice(raw)
    \/ \E failed \in BOOLEAN, answer \in NewsResponses :
           FetchNews(failed, answer)
    \/ \E ok \in BOOLEAN, answer \in ScorerAnswers(Len(articles)) :
           AnalyzeSentiment(ok, answer)
    \/ \E ok \in BOOLEAN : GenerateAnalysis(ok)
    \/ \E ok \in BOOLEAN : SendEmail(ok)

Spec == Init /\ [][Next]_vars

----------------------------------------------------------------------------
(* Properties of the analyze pipeline, checked under Spec *)

CallsOf(op) == {k \in DOMAIN calls : calls[k].op = op}
\* analyze got past its validation at line 485
Accepted ==
    /\ pc # "idle"
    /\ request.is_object
    /\ request.ticker \notin {"None", ""}
    /\ request.email \notin {"None", ""}
UnknownTimeframe ==
    Accepted /\ request.timeframe \notin (KnownTimeframes \cup {"None"})

FetchFailed ==
    /\ Len(calls) >= 1
    /\ \/ raw_data.error
       \/ cleaned.error

\* C8: the narrative generator and the delivery channel are called only
\* after every interval of the timeframe was fetched and normalised without
\* error, each interval fetched once and in order; a fetch or normalisation
\* error ends the request at once with a 500 response, no further call made.
C8_NarrativeOnlyAfterAllIntervals ==
    /\ \A k \in DOMAIN calls :
           /\ calls[k].op = "get_price_data" =>
                  /\ k <= Len(intervals)
                  /\ calls[k].interval = intervals[k]
           /\ calls[k].op \in {"generate_trading_analysis", "send_email"} =>
                  /\ k > Len(intervals)
                  /\ \A i \in 1..Len(intervals) :
                         /\ calls[i].op = "get_price_data"
                         /\ ~calls[i].failed
                  /\ Len(price_data) = Len(intervals)
                  /\ \A i \in 1..Len(price_data) : ~price_data[i].error
           /\ calls[k].op = "generate_trading_analysis" =>
                  /\ Len(calls[k].price_data) = Len(intervals)
                  /\ \A i \in 1..Len(intervals) :
                         ~calls[k].price_data[i].error
    /\ FetchFailed =>
           /\ pc = "done"
           /\ response.status = 500
           /\ calls[Len(calls)].op = "get_price_data"
           /\ Len(calls) = Len(price_data) + 1
           /\ CallsOf("generate_trading_analysis") = {}
           /\ CallsOf("send_email") = {}

\* the first interval normalised, the second did not: the request is over
C8_Witness ==
    /\ FetchFailed
    /\ Len(intervals) = 2
    /\ Len(price_data) = 1
    /\ ~raw_data.error
    /\ cleaned.error
    /\ pc = "done"
    /\ response.status = 500

NoArticles(k) ==
    \/ ~calls[k].result.has_articles
    \/ calls[k].result.articles = <<>>

\* C10: when the news result holds no articles (empty list or no articles
\* key) the scorer is never called and the narrative generator is handed the
\* neutral default; when it holds an article the scorer has been called
\* exactly once, with those articles, before the narrative generator is.
C10_ScorerOnlyWithArticles ==
    \A k \in DOMAIN calls :
        calls[k].op = "get_news_data" =>
            /\ NoArticles(k) =>
                   /\ CallsOf("analyze_sentiment") = {}
                   /\ \A g \in CallsOf("generate_trading_analysis") :
                          LET sd == calls[g].sentiment_data
                          IN  /\ sd.overall_sentiment = "Neutral"
                              /\ sd.sentiment_score = 0
                              /\ sd.market_impact = "Low"
                              /\ sd.key_factors = <<"No recent news">>
                              /\ sd.articles_analyzed = 0
            /\ ~NoArticles(k) =>
                   /\ Cardinality(CallsOf("analyze_sentiment")) <= 1
                   /\ \A s \in CallsOf("analyze_sentiment") :
                          /\ s = k + 1
                          /\ calls[s].articles = calls[k].result.articles
                   /\ \A g \in CallsOf("generate_trading_analysis") :
                          /\ Cardinality(CallsOf("analyze_sentiment")) = 1
                          /\ \A s \in CallsOf("analyze_sentiment") : s < g
                          /\ calls[g].sentiment_data \in
                                 ScorerAnswers(Len(calls[k].result.articles))

\* a news result without the articles key, and the generator called with
\* the neutral default
C10_Witness ==
    /\ \E k \in DOMAIN calls :
           /\ calls[k].op = "get_news_data"
           /\ ~calls[k].failed
           /\ ~calls[k].result.has_articles
    /\ \E g \in CallsOf("generate_trading_analysis") :
           calls[g].sentiment_data = NeutralSentiment
    /\ CallsOf("analyze_sentiment") = {}

\* the request names no ticker or no email, or its body is no JSON object
MissingTickerOrEmail ==
    /\ pc # "idle"
    /\ \/ ~request.is_object
       \/ request.ticker \in {"None", ""}
       \/ request.email \in {"None", ""}

\* C11: every request whose ticker or email is missing or empty, a request
\* whose body is no JSON object included, is answered with status 400 and no
\* gateway, scorer, narrative generator or delivery call is made for it.
C11_MissingFieldsAre400 ==
    MissingTickerOrEmail =>
        /\ pc = "done"
        /\ response.status = 400
        /\ calls = <<>>

\* the length of a sampling interval, in minutes
IntervalMinutes(interval) ==
    CASE interval = "1min"   -> 1
      [] interval = "5min"   -> 5
      [] interval = "15min"  -> 15
      [] interval = "1h"     -> 60
      [] interval = "4h"     -> 240
      [] interval = "1day"   -> 1440
      [] interval = "1week"  -> 10080
      [] interval = "1month" -> 43200

\* analyze resolved one of the six labels ("24h" when the key is absent)
KnownTimeframe == Accepted /\ Timeframe(request) \in KnownTimeframes

\* C12 as stated: each of the six labels resolves to exactly two intervals,
\* and two series are fetched and normalised for the narrative generator.
C12_Original ==
    KnownTimeframe =>
        /\ Len(intervals) = 2
        /\ \A g \in CallsOf("generate_trading_analysis") :
               /\ Len(calls[g].price_data) = 2
               /\ Cardinality(CallsOf("get_price_data")) = 2

\* C12 amended: each of the labels 1h, 12h, 24h, 1m and 3m resolves to an
\* ordered pair of exactly two intervals [short, long], while 1y resolves to
\* the single interval 1month; the pipeline fetches and normalises one series
\* per interval of the label: two per request, one for 1y.
C12_TwoIntervalsButOneForYear ==
    KnownTimeframe =>
        /\ Timeframe(request) # "1y" =>
               /\ Len(intervals) = 2
               /\ IntervalMinutes(intervals[1]) < IntervalMinutes(intervals[2])
        /\ Timeframe(request) = "1y" => intervals = <<"1month">>
        /\ Len(price_data) <= Len(intervals)
        /\ \A k \in CallsOf("get_price_data") :
               /\ k <= Len(intervals)
               /\ calls[k].interval = intervals[k]
        /\ \A g \in CallsOf("generate_trading_analysis") :
               /\ Len(calls[g].price_data) = Len(intervals)
               /\ Cardinality(CallsOf("get_price_data")) = Len(intervals)

\* a report on "12h": the 15min series fetched first, the 1h series second
C12_Witness ==
    /\ KnownTimeframe
    /\ request.timeframe = "12h"
    /\ Len(calls) >= 2
    /\ calls[1].op = "get_price_data"
    /\ calls[1].interval = "15min"
    /\ calls[2].op = "get_price_data"
    /\ calls[2].interval = "1h"
    /\ \E g \in CallsOf("generate_trading_analysis") :
           Len(calls[g].price_data) = 2
    /\ pc = "done"
    /\ response.status = 200

====
